---- MODULE Spec2Model ----
(***************************************************************************)
(* Model of safer_cipher.py: the exp/log tables, the round-key schedule,   *)
(* the round function F, the Feistel block cipher, PKCS#7 padding, the IV  *)
(* derivation and the CBC message codec with its base64 / UTF-8 boundary.  *)
(*                                                                         *)
(* bytes values are sequences of integers 0..255 (index 1 is Python index  *)
(* 0); str values are sequences of Unicode code points.  A call that can   *)
(* raise returns a record [ok, val, err]: ok = TRUE with the value, or     *)
(* ok = FALSE with the exception message the source raises.                *)
(***************************************************************************)
EXTENDS Integers, Sequences, FiniteSets, TLC

VARIABLES
    _EXP, _LOG,       \* the module-level lists _EXP and _LOG
    ti, tpc,        \* _init_tables: loop index and position
    fn, args, ret,  \* the call of a helper in progress: name, arguments, result
    plaintext, key_str, sent, blob, key2, outcome, pc
                    \* a message session: sent = encrypt_message(plaintext,
                    \* key_str), blob is what reaches the receiver, and
                    \* outcome = decrypt_message(blob, key2)

vars == <<_EXP, _LOG, ti, tpc, fn, args, ret,
          plaintext, key_str, sent, blob, key2, outcome, pc>>

tableVars == <<_EXP, _LOG, ti, tpc>>
callVars == <<fn, args, ret>>
msgVars == <<plaintext, key_str, sent, blob, key2, outcome, pc>>

BLOCK_SIZE == 8
ROUNDS == 10
TABLE_SIZE == 256

\* ---------------------------------------------------------------- results

Ok(v) == [ok |-> TRUE, val |-> v, err |-> ""]
Raise(e) == [ok |-> FALSE, val |-> <<>>, err |-> e]
\* the result of a call that has not returned yet
NotReturned == [ok |-> FALSE, val |-> <<>>, err |-> "not returned"]

\* ---------------------------------------------------------- byte arithmetic

\* a ^ b on non-negative integers of at most n bits
RECURSIVE BitXor(_, _, _)
BitXor(a, b, n) ==
    IF n = 0 THEN 0
    ELSE ((a + b) % 2) + 2 * BitXor(a \div 2, b \div 2, n - 1)

\* a | b on non-negative integers of at most n bits
RECURSIVE BitOr(_, _, _)
BitOr(a, b, n) ==
    IF n = 0 THEN 0
    ELSE (IF a % 2 = 1 \/ b % 2 = 1 THEN 1 ELSE 0)
         + 2 * BitOr(a \div 2, b \div 2, n - 1)

\* the sequence f[1], ..., f[n] with its elements computed once
Bytestring(f, n) == SubSeq(f, 1, n)

\* a ^ b for 4-bit a and b, tabulated: entry [a + 1][b + 1]
XorNibbles ==
    Bytestring([a \in 1..16 |->
                   Bytestring([b \in 1..16 |-> BitXor(a - 1, b - 1, 4)], 16)], 16)

\* a ^ b on bytes, nibble by nibble
Xor(a, b) ==
    16 * XorNibbles[(a \div 16) + 1][(b \div 16) + 1]
        + XorNibbles[(a % 16) + 1][(b % 16) + 1]

\* bytes(x ^ y for x, y in zip(a, b)): zip stops at the shorter operand
XorBytes(a, b) ==
    LET n == IF Len(a) < Len(b) THEN Len(a) ELSE Len(b)
    IN Bytestring([i \in 1..n |-> Xor(a[i], b[i])], n)

\* pow(b, e, m) for e >= 0, by repeated squaring
RECURSIVE pow(_, _, _)
pow(b, e, m) ==
    IF e = 0 THEN 1 % m
    ELSE LET h == pow(b, e \div 2, m)
         IN IF e % 2 = 0 THEN (h * h) % m ELSE (((h * h) % m) * b) % m

\* ------------------------------------------------------------ _init_tables

\* A table is a sequence of TABLE_SIZE entries: entry i + 1 is Python's
\* element i.

\* the table made of entry(lo), ..., entry(hi), the range halved to keep the
\* evaluation shallow
RECURSIVE TableOf(_, _, _)
TableOf(entry(_), lo, hi) ==
    IF lo > hi THEN <<>>
    ELSE IF lo = hi THEN <<entry(lo)>>
    ELSE LET mid == (lo + hi) \div 2
         IN TableOf(entry, lo, mid) \o TableOf(entry, mid + 1, hi)

\* [0] * 256
ZeroEntry(i) == 0
ZeroTable == TableOf(ZeroEntry, 0, TABLE_SIZE - 1)

\* the value of y after the fold "if y == 256: y = 0"
ExpFold(y) == IF y = 256 THEN 0 ELSE y

\* one iteration of the first loop: _EXP[i] = y
ExpStep(E, i) == [E EXCEPT ![i + 1] = ExpFold(pow(45, i, 257))]

\* one iteration of the second loop: skip a zero value, else _LOG[x] = i & 0xFF
LogStep(L, E, i) ==
    IF E[i + 1] = 0 THEN L ELSE [L EXCEPT ![E[i + 1] + 1] = i % 256]

\* (mutant) the closing assignment _LOG[0] = 128 left out
LogFinal_left_out(L) == L

\* _LOG[0] = 128
LogFinal(L) == [L EXCEPT ![1] = 128]

\* The tables as the call _init_tables() at import leaves them.  The first
\* loop writes every index once.  In the second loop a later index overwrites
\* an earlier one with the same non-zero value, and a value that no index
\* has keeps its initial 0.
ExpReadyEntry(i) == ExpStep(ZeroTable, i)[i + 1]
EXP_ready == TableOf(ExpReadyEntry, 0, TABLE_SIZE - 1)

LogReadyEntry(x) ==
    LET from == {i \in 0..(TABLE_SIZE - 1) : x # 0 /\ EXP_ready[i + 1] = x}
    IN IF from = {} THEN 0
       ELSE LogStep(ZeroTable, EXP_ready,
                    CHOOSE i \in from : \A j \in from : j <= i)[x + 1]
LOG_ready == LogFinal(TableOf(LogReadyEntry, 0, TABLE_SIZE - 1))

_sbox_exp(x) == _EXP[(x % 256) + 1]
_sbox_log(x) == _LOG[(x % 256) + 1]

\* ------------------------------------------------------------ key schedule

\* (mutant) the bits shifted out on the left are lost instead of wrapping
_rotate_byte_left6_no_wrap(b) == ((b % 256) * 64) % 256

_rotate_byte_left6(b) ==
    LET c == b % 256
    IN BitOr((c * 64) % 256, c \div 4, 8)

RECURSIVE round_keys_loop(_, _, _)
round_keys_loop(state, round_keys, n) ==
    IF n <= 0 THEN round_keys
    ELSE round_keys_loop(Bytestring([i \in 1..Len(state) |->
                                        _rotate_byte_left6(state[i])], Len(state)),
                         Append(round_keys, SubSeq(state, 1, 8)),
                         n - 1)

\* (mutant) the subkey taken from the upper half of the state, state[8:]
_generate_round_keys_from_tail(master, rounds) ==
    IF Len(master) # 16
    THEN Raise("master key must be 16 bytes")
    ELSE Ok(round_keys_loop(SubSeq(master, 9, 16) \o SubSeq(master, 1, 8),
                            <<>>, rounds))

_generate_round_keys(master, rounds) ==
    IF Len(master) # 16
    THEN Raise("master key must be 16 bytes")
    ELSE Ok(round_keys_loop(master, <<>>, rounds))

\* ------------------------------------------------------------------ Feistel

\* rk[:4], block[:4], block[4:]
Take(s, n) == SubSeq(s, 1, IF Len(s) < n THEN Len(s) ELSE n)
Drop(s, n) == SubSeq(s, n + 1, Len(s))

_split_block(block) ==
    IF Len(block) # BLOCK_SIZE THEN Raise("Block size must be 8 bytes")
    ELSE Ok(<<Take(block, 4), Drop(block, 4)>>)

_join_block(left, right) == left \o right

_F(right, rk) ==
    IF Len(right) # 4 THEN Raise("Right half must be 4 bytes")
    ELSE IF Len(rk) < 4 THEN Raise("Round key must be at least 4 bytes")
    ELSE
        LET x == Bytestring([i \in 1..4 |-> Xor(right[i], rk[i]) % 256], 4)
            x0 == _sbox_exp(x[1])
            x1 == _sbox_log(x[2])
            x2 == _sbox_exp(x[3])
            x3 == _sbox_log(x[4])
        IN Ok(<< (2 * x0 + x1) % 256, (x0 + x1) % 256,
                 (2 * x2 + x3) % 256, (x2 + x3) % 256 >>)

\* the loop of encrypt_block over round_keys[k..]
RECURSIVE encrypt_rounds(_, _, _, _)
encrypt_rounds(left, right, round_keys, k) ==
    IF k > Len(round_keys) THEN Ok(_join_block(left, right))
    ELSE
        LET F_out == _F(right, Take(round_keys[k], 4))
        IN IF ~F_out.ok THEN F_out
           ELSE encrypt_rounds(right, XorBytes(left, F_out.val), round_keys, k + 1)

encrypt_block(block, round_keys) ==
    IF Len(block) # BLOCK_SIZE THEN Raise("Block must be 8 bytes")
    ELSE
        LET halves == _split_block(block)
        IN IF ~halves.ok THEN halves
           ELSE encrypt_rounds(halves.val[1], halves.val[2], round_keys, 1)

\* the loop of decrypt_block over reversed(round_keys), from index k down
RECURSIVE decrypt_rounds(_, _, _, _)
decrypt_rounds(left, right, round_keys, k) ==
    IF k < 1 THEN Ok(_join_block(left, right))
    ELSE
        LET F_out == _F(left, Take(round_keys[k], 4))
        IN IF ~F_out.ok THEN F_out
           ELSE decrypt_rounds(XorBytes(right, F_out.val), left, round_keys, k - 1)

\* (mutant) the subkeys taken in schedule order, not reversed
RECURSIVE decrypt_rounds_forward(_, _, _, _)
decrypt_rounds_forward(left, right, round_keys, k) ==
    IF k > Len(round_keys) THEN Ok(_join_block(left, right))
    ELSE
        LET F_out == _F(left, Take(round_keys[k], 4))
        IN IF ~F_out.ok THEN F_out
           ELSE decrypt_rounds_forward(XorBytes(right, F_out.val), left,
                                       round_keys, k + 1)

decrypt_block_forward(block, round_keys) ==
    IF Len(block) # BLOCK_SIZE THEN Raise("Block must be 8 bytes")
    ELSE decrypt_rounds_forward(Take(block, 4), Drop(block, 4), round_keys, 1)

decrypt_block(block, round_keys) ==
    IF Len(block) # BLOCK_SIZE THEN Raise("Block must be 8 bytes")
    ELSE
        LET halves == _split_block(block)
        IN IF ~halves.ok THEN halves
           ELSE decrypt_rounds(halves.val[1], halves.val[2], round_keys,
                               Len(round_keys))

\* ------------------------------------------------------------------ padding

\* bytes([v]) * n
Repeat(v, n) == Bytestring([i \in 1..n |-> v], n)

\* (mutant) the pad length reduced modulo the block size: aligned data gets
\* no padding at all
_pkcs7_pad_aligned_unpadded(data, block_size) ==
    LET pad_len == (block_size - (Len(data) % block_size)) % block_size
    IN data \o Repeat(pad_len, pad_len)

_pkcs7_pad(data, block_size) ==
    LET p == block_size - (Len(data) % block_size)
        pad_len == IF p = 0 THEN block_size ELSE p
    IN data \o Repeat(pad_len, pad_len)

\* (mutant) only the final byte is validated, the fill bytes are not compared
_pkcs7_unpad_fill_unchecked(data, block_size) ==
    IF Len(data) = 0 \/ Len(data) % block_size # 0
    THEN Raise("Invalid padded data length")
    ELSE
        LET pad_len == data[Len(data)]
        IN IF pad_len < 1 \/ pad_len > block_size
           THEN Raise("Invalid padding length")
           ELSE Ok(SubSeq(data, 1, Len(data) - pad_len))

_pkcs7_unpad(data, block_size) ==
    IF Len(data) = 0 \/ Len(data) % block_size # 0
    THEN Raise("Invalid padded data length")
    ELSE
        LET pad_len == data[Len(data)]
            \* data[-pad_len:] is the whole of data when pad_len exceeds its length
            from == IF pad_len >= Len(data) THEN 1 ELSE Len(data) - pad_len + 1
        IN IF pad_len < 1 \/ pad_len > block_size
           THEN Raise("Invalid padding length")
           ELSE IF SubSeq(data, from, Len(data)) # Repeat(pad_len, pad_len)
           THEN Raise("Invalid padding bytes")
           ELSE Ok(SubSeq(data, 1, Len(data) - pad_len))

\* (mutant) the XOR constant mistyped as 0x5A
_derive_iv_0x5A(key) ==
    LET n == Len(Take(key, BLOCK_SIZE))
    IN Bytestring([i \in 1..n |-> Xor(key[i], 90) % 256], n)

_derive_iv(key) ==
    LET n == Len(Take(key, BLOCK_SIZE))
    IN Bytestring([i \in 1..n |-> Xor(key[i], 165) % 256], n)

\* ------------------------------------------------------ str <-> bytes (UTF-8)

\* the UTF-8 bytes of one code point
utf8_char(cp) ==
    IF cp < 128 THEN <<cp>>
    ELSE IF cp < 2048 THEN <<192 + (cp \div 64), 128 + (cp % 64)>>
    ELSE IF cp < 65536
    THEN <<224 + (cp \div 4096), 128 + ((cp \div 64) % 64), 128 + (cp % 64)>>
    ELSE <<240 + (cp \div 262144), 128 + ((cp \div 4096) % 64),
           128 + ((cp \div 64) % 64), 128 + (cp % 64)>>

RECURSIVE utf8_concat(_, _)
utf8_concat(s, i) ==
    IF i > Len(s) THEN <<>> ELSE utf8_char(s[i]) \o utf8_concat(s, i + 1)

\* s.encode("utf-8"): a lone surrogate cannot be encoded
str_encode_utf8(s) ==
    IF \E i \in 1..Len(s) : s[i] >= 55296 /\ s[i] <= 57343
    THEN Raise("UnicodeEncodeError")
    ELSE Ok(utf8_concat(s, 1))

\* b.decode("utf-8") from byte i on: strict, no overlong forms, no surrogates,
\* nothing above U+10FFFF
RECURSIVE utf8_decode_from(_, _, _)
utf8_decode_from(b, i, acc) ==
    IF i > Len(b) THEN Ok(acc)
    ELSE
        LET b0 == b[i]
            cont(j, lo, hi) == i + j <= Len(b) /\ b[i + j] >= lo /\ b[i + j] <= hi
            c(j) == b[i + j] - 128
        IN IF b0 < 128 THEN utf8_decode_from(b, i + 1, Append(acc, b0))
           ELSE IF b0 >= 194 /\ b0 <= 223 /\ cont(1, 128, 191)
           THEN utf8_decode_from(b, i + 2, Append(acc, (b0 - 192) * 64 + c(1)))
           ELSE IF b0 >= 224 /\ b0 <= 239
                   /\ cont(1, IF b0 = 224 THEN 160 ELSE 128,
                              IF b0 = 237 THEN 159 ELSE 191)
                   /\ cont(2, 128, 191)
           THEN utf8_decode_from(b, i + 3,
                    Append(acc, (b0 - 224) * 4096 + c(1) * 64 + c(2)))
           ELSE IF b0 >= 240 /\ b0 <= 244
                   /\ cont(1, IF b0 = 240 THEN 144 ELSE 128,
                              IF b0 = 244 THEN 143 ELSE 191)
                   /\ cont(2, 128, 191) /\ cont(3, 128, 191)
           THEN utf8_decode_from(b, i + 4,
                    Append(acc, (b0 - 240) * 262144 + c(1) * 4096 + c(2) * 64 + c(3)))
           ELSE Raise("UnicodeDecodeError")

bytes_decode_utf8(b) == utf8_decode_from(b, 1, <<>>)

\* s.encode("ascii")
str_encode_ascii(s) ==
    IF \E i \in 1..Len(s) : s[i] > 127
    THEN Raise("UnicodeEncodeError")
    ELSE Ok(s)

\* ------------------------------------------------------------------- base64

\* the character of a 6-bit value in the standard alphabet A-Z a-z 0-9 + /
b64_char(v) ==
    IF v < 26 THEN 65 + v
    ELSE IF v < 52 THEN 97 + (v - 26)
    ELSE IF v < 62 THEN 48 + (v - 52)
    ELSE IF v = 62 THEN 43 ELSE 47

\* (mutant) "+" read as 63, the value of "/"
b64_value_plus_as_slash(ch) ==
    IF ch >= 65 /\ ch <= 90 THEN ch - 65
    ELSE IF ch >= 97 /\ ch <= 122 THEN ch - 97 + 26
    ELSE IF ch >= 48 /\ ch <= 57 THEN ch - 48 + 52
    ELSE IF ch = 43 THEN 63
    ELSE IF ch = 47 THEN 63
    ELSE 64

\* the 6-bit value of a character, 64 for a character outside the alphabet
b64_value(ch) ==
    IF ch >= 65 /\ ch <= 90 THEN ch - 65
    ELSE IF ch >= 97 /\ ch <= 122 THEN ch - 97 + 26
    ELSE IF ch >= 48 /\ ch <= 57 THEN ch - 48 + 52
    ELSE IF ch = 43 THEN 62
    ELSE IF ch = 47 THEN 63
    ELSE 64

\* base64.b64encode(data).decode("ascii") from byte i on; 61 is "="
RECURSIVE b64encode_from(_, _)
b64encode_from(d, i) ==
    LET n == Len(d) - i + 1
    IN IF n <= 0 THEN <<>>
       ELSE IF n = 1
       THEN <<b64_char(d[i] \div 4), b64_char((d[i] % 4) * 16), 61, 61>>
       ELSE IF n = 2
       THEN <<b64_char(d[i] \div 4),
              b64_char((d[i] % 4) * 16 + (d[i + 1] \div 16)),
              b64_char((d[i + 1] % 16) * 4), 61>>
       ELSE <<b64_char(d[i] \div 4),
              b64_char((d[i] % 4) * 16 + (d[i + 1] \div 16)),
              b64_char((d[i + 1] % 16) * 4 + (d[i + 2] \div 64)),
              b64_char(d[i + 2] % 64)>> \o b64encode_from(d, i + 3)

b64encode(data) == b64encode_from(data, 1)

\* base64.b64decode(data) with its default validate=False: characters
\* outside the alphabet are skipped, a completed pad sequence ends the input
RECURSIVE a2b_base64(_, _, _, _, _, _)
a2b_base64(data, i, quad_pos, leftchar, pads, out) ==
    IF i > Len(data)
    THEN IF quad_pos = 0 THEN Ok(out)
         ELSE IF quad_pos = 1
         THEN Raise("binascii.Error: Invalid base64-encoded string")
         ELSE Raise("binascii.Error: Incorrect padding")
    ELSE
        LET ch == data[i]
            v == b64_value(ch)
        IN IF ch = 61
           THEN IF quad_pos >= 2 /\ quad_pos + pads + 1 >= 4 THEN Ok(out)
                ELSE a2b_base64(data, i + 1, quad_pos, leftchar,
                                IF quad_pos >= 2 THEN pads + 1 ELSE pads, out)
           ELSE IF v >= 64
           THEN a2b_base64(data, i + 1, quad_pos, leftchar, pads, out)
           ELSE IF quad_pos = 0
           THEN a2b_base64(data, i + 1, 1, v, 0, out)
           ELSE IF quad_pos = 1
           THEN a2b_base64(data, i + 1, 2, v % 16, 0,
                           Append(out, leftchar * 4 + (v \div 16)))
           ELSE IF quad_pos = 2
           THEN a2b_base64(data, i + 1, 3, v % 4, 0,
                           Append(out, leftchar * 16 + (v \div 4)))
           ELSE a2b_base64(data, i + 1, 0, 0, 0, Append(out, leftchar * 64 + v))

b64decode(data) == a2b_base64(data, 1, 0, 0, 0, <<>>)

\* ----------------------------------------------------------- message codec

\* kb.ljust(16, b"\x00") or kb[:16]
_derive_key(key) ==
    LET kb == str_encode_utf8(key)
    IN IF ~kb.ok THEN kb
       ELSE IF Len(kb.val) < 16
       THEN Ok(kb.val \o Repeat(0, 16 - Len(kb.val)))
       ELSE Ok(Take(kb.val, 16))

\* the loop of encrypt_message from offset i on (0-based, as range(0, len, 8))
RECURSIVE cbc_encrypt(_, _, _, _)
cbc_encrypt(data, round_keys, prev, i) ==
    IF i >= Len(data) THEN Ok(<<>>)
    ELSE
        LET block == SubSeq(data, i + 1,
                            IF i + BLOCK_SIZE > Len(data) THEN Len(data)
                            ELSE i + BLOCK_SIZE)
            xored == XorBytes(block, prev)
            cblock == encrypt_block(xored, round_keys)
        IN IF ~cblock.ok THEN cblock
           ELSE LET rest == cbc_encrypt(data, round_keys, cblock.val, i + BLOCK_SIZE)
                IN IF ~rest.ok THEN rest ELSE Ok(cblock.val \o rest.val)

\* the bytes encrypt_message hands to base64: iv + b"".join(chunks)
encrypt_raw(plaintext_, key, rounds) ==
    LET master == _derive_key(key)
    IN IF ~master.ok THEN master
       ELSE
        LET round_keys == _generate_round_keys(master.val, rounds)
            iv == _derive_iv(master.val)
            pt == str_encode_utf8(plaintext_)
        IN IF ~round_keys.ok THEN round_keys
           ELSE IF ~pt.ok THEN pt
           ELSE LET chunks == cbc_encrypt(_pkcs7_pad(pt.val, BLOCK_SIZE),
                                          round_keys.val, iv, 0)
                IN IF ~chunks.ok THEN chunks ELSE Ok(iv \o chunks.val)

encrypt_message(plaintext_, key, rounds) ==
    LET result == encrypt_raw(plaintext_, key, rounds)
    IN IF ~result.ok THEN result ELSE Ok(b64encode(result.val))

\* (mutant) the chaining value taken from the decrypted block, not from the
\* ciphertext block
RECURSIVE cbc_decrypt_chain_plain(_, _, _, _)
cbc_decrypt_chain_plain(cipher, round_keys, prev, i) ==
    IF i >= Len(cipher) THEN Ok(<<>>)
    ELSE
        LET block == SubSeq(cipher, i + 1,
                            IF i + BLOCK_SIZE > Len(cipher) THEN Len(cipher)
                            ELSE i + BLOCK_SIZE)
            dblock == decrypt_block(block, round_keys)
        IN IF ~dblock.ok THEN dblock
           ELSE LET pblock == XorBytes(dblock.val, prev)
                    rest == cbc_decrypt_chain_plain(cipher, round_keys, pblock,
                                                    i + BLOCK_SIZE)
                IN IF ~rest.ok THEN rest ELSE Ok(pblock \o rest.val)

\* the loop of decrypt_message from offset i on
RECURSIVE cbc_decrypt(_, _, _, _)
cbc_decrypt(cipher, round_keys, prev, i) ==
    IF i >= Len(cipher) THEN Ok(<<>>)
    ELSE
        LET block == SubSeq(cipher, i + 1,
                            IF i + BLOCK_SIZE > Len(cipher) THEN Len(cipher)
                            ELSE i + BLOCK_SIZE)
            dblock == decrypt_block(block, round_keys)
        IN IF ~dblock.ok THEN dblock
           ELSE LET rest == cbc_decrypt(cipher, round_keys, block, i + BLOCK_SIZE)
                IN IF ~rest.ok THEN rest
                   ELSE Ok(XorBytes(dblock.val, prev) \o rest.val)

\* (mutant) the IV derived from the receiver's passphrase, not read from the blob
decrypt_message_own_iv(ciphertext_b64, key, rounds) ==
    LET ascii == str_encode_ascii(ciphertext_b64)
        raw == b64decode(ascii.val)
        master == _derive_key(key)
        round_keys == _generate_round_keys(master.val, rounds)
        chunks == cbc_decrypt(Drop(raw.val, BLOCK_SIZE), round_keys.val,
                              _derive_iv(master.val), 0)
        data == _pkcs7_unpad(chunks.val, BLOCK_SIZE)
    IN IF ~ascii.ok THEN ascii
       ELSE IF ~raw.ok THEN raw
       ELSE IF Len(raw.val) < BLOCK_SIZE THEN Raise("Ciphertext too short")
       ELSE IF ~master.ok THEN master
       ELSE IF ~round_keys.ok THEN round_keys
       ELSE IF ~chunks.ok THEN chunks
       ELSE IF ~data.ok THEN data
       ELSE bytes_decode_utf8(data.val)

decrypt_message(ciphertext_b64, key, rounds) ==
    LET ascii == str_encode_ascii(ciphertext_b64)
        raw == b64decode(ascii.val)
        master == _derive_key(key)
        round_keys == _generate_round_keys(master.val, rounds)
        chunks == cbc_decrypt(Drop(raw.val, BLOCK_SIZE), round_keys.val,
                              Take(raw.val, BLOCK_SIZE), 0)
        data == _pkcs7_unpad(chunks.val, BLOCK_SIZE)
    IN IF ~ascii.ok THEN ascii
       ELSE IF ~raw.ok THEN raw
       ELSE IF Len(raw.val) < BLOCK_SIZE THEN Raise("Ciphertext too short")
       ELSE IF ~master.ok THEN master
       ELSE IF ~round_keys.ok THEN round_keys
       ELSE IF ~chunks.ok THEN chunks
       ELSE IF ~data.ok THEN data
       ELSE bytes_decode_utf8(data.val)

\* ===================================================================
\* Specifications
\* ===================================================================

\* the tables after import, no helper call and no session in progress
TablesReady ==
    /\ _EXP = EXP_ready /\ _LOG = LOG_ready
    /\ ti = TABLE_SIZE /\ tpc = "done"
NoCall == fn = "none" /\ args = <<>> /\ ret = NotReturned
NoSession ==
    /\ plaintext = <<>> /\ key_str = <<>> /\ sent = <<>> /\ blob = <<>>
    /\ key2 = <<>> /\ outcome = NotReturned /\ pc = "start"

\* n bytes that vary with the seed and the position
Bytes(seed, n) ==
    Bytestring([i \in 1..n |-> (seed * 31 + i * i * 7 + i * seed * 13) % 256], n)

\* ------------------------------------------------- SpecTables: _init_tables

InitTables ==
    /\ _EXP = ZeroTable /\ _LOG = ZeroTable
    /\ ti = 0 /\ tpc = "exp"
    /\ NoCall /\ NoSession

\* for i in range(256): ... _EXP[i] = y
ExpIter ==
    /\ tpc = "exp"
    /\ _EXP' = ExpStep(_EXP, ti)
    /\ ti' = IF ti + 1 = TABLE_SIZE THEN 0 ELSE ti + 1
    /\ tpc' = IF ti + 1 = TABLE_SIZE THEN "log" ELSE "exp"
    /\ UNCHANGED <<_LOG, callVars, msgVars>>

\* for i, val in enumerate(_EXP): ... _LOG[x] = i & 0xFF
LogIter ==
    /\ tpc = "log"
    /\ _LOG' = LogStep(_LOG, _EXP, ti)
    /\ ti' = ti + 1
    /\ tpc' = IF ti + 1 = TABLE_SIZE THEN "final" ELSE "log"
    /\ UNCHANGED <<_EXP, callVars, msgVars>>

\* _LOG[0] = 128
LogLast ==
    /\ tpc = "final"
    /\ _LOG' = LogFinal(_LOG)
    /\ tpc' = "done"
    /\ UNCHANGED <<_EXP, ti, callVars, msgVars>>

NextTables == ExpIter \/ LogIter \/ LogLast

SpecTables == InitTables /\ [][NextTables]_vars

\* the tables the other specifications start from are the ones the loops build
ReadyTablesAreBuilt == tpc = "done" => _EXP = EXP_ready /\ _LOG = LOG_ready

\* 256 stands for the value the table folds to 0
Unfold(v) == IF v = 0 THEN 256 ELSE v

\* C8: once _init_tables has run, _EXP[i] is 45^i mod 257 with 256 folded to 0
\* (45^0 = 1 and each entry is 45 times the one before it, mod 257, and every
\* entry is a byte), _EXP is injective where it is not 0, _LOG[_EXP[i]] = i
\* wherever _EXP[i] is not 0, and _LOG[0] = 128.
C8_TablesInverse ==
    tpc = "done" =>
        /\ Len(_EXP) = 256 /\ Len(_LOG) = 256
        /\ Unfold(_EXP[1]) = 1
        /\ \A i \in 1..255 : Unfold(_EXP[i + 1]) = (45 * Unfold(_EXP[i])) % 257
        /\ \A i \in 0..255 : _EXP[i + 1] \in 0..255
        /\ \A i, j \in 0..255 :
               (_EXP[i + 1] # 0 /\ _EXP[i + 1] = _EXP[j + 1]) => i = j
        /\ \A i \in 0..255 : _EXP[i + 1] # 0 => _LOG[_EXP[i + 1] + 1] = i
        /\ _LOG[1] = 128

\* the tables are built, 256 was folded to 0 at index 128 and 0 has its log
C8_Witness ==
    /\ tpc = "done"
    /\ _EXP[129] = 0
    /\ _LOG[1] = 128
    /\ _EXP[2] = 45 /\ _LOG[46] = 1

\* ---------------------------------------------- helper calls: common shape

\* A helper specification starts with the helper's name and arguments chosen
\* and the result not returned; its action makes the call.
Called(f) == fn = f /\ ret # NotReturned

\* --------------------------------------- SpecKeys: _generate_round_keys

MaxSeed == 3
MaxRounds == 5

KeyLengths == {0, 15, 16, 17}

InitKeys ==
    /\ TablesReady /\ NoSession
    /\ fn = "_generate_round_keys"
    /\ \E n \in KeyLengths, seed \in 0..MaxSeed, R \in (0..MaxRounds) \cup {ROUNDS} :
           args = [master |-> Bytes(seed, n), rounds |-> R]
    /\ ret = NotReturned

GenerateRoundKeys ==
    /\ fn = "_generate_round_keys" /\ ret = NotReturned
    /\ ret' = _generate_round_keys(args.master, args.rounds)
    /\ UNCHANGED <<tableVars, fn, args, msgVars>>

NextKeys == GenerateRoundKeys

SpecKeys == InitKeys /\ [][NextKeys]_vars

\* a byte rotated left by one bit within 8 bits
RotL1(b) == ((2 * b) % 256) + (b \div 128)

\* a byte rotated left by six bits: one bit, six times
RotL6(b) == RotL1(RotL1(RotL1(RotL1(RotL1(RotL1(b))))))

\* C10: _generate_round_keys fails on a key that is not 16 bytes long; given
\* 16 bytes it returns R subkeys of 8 bytes in round order: the first is
\* key[0..7] unchanged and each later one is the one before it with every
\* byte rotated left by 6 bits (so the r-th is key[0..7] rotated r-1 times).
C10_RoundKeys ==
    Called("_generate_round_keys") =>
        IF Len(args.master) # 16
        THEN ~ret.ok
        ELSE /\ ret.ok
             /\ Len(ret.val) = (IF args.rounds > 0 THEN args.rounds ELSE 0)
             /\ \A r \in 1..Len(ret.val) : Len(ret.val[r]) = 8
             /\ Len(ret.val) >= 1 => ret.val[1] = SubSeq(args.master, 1, 8)
             /\ \A r \in 2..Len(ret.val) : \A j \in 1..8 :
                    ret.val[r][j] = RotL6(ret.val[r - 1][j])

\* a 16-byte key expanded to the default ten subkeys, the second one differing
\* from the first
C10_Witness ==
    /\ Called("_generate_round_keys")
    /\ Len(args.master) = 16 /\ args.rounds = ROUNDS
    /\ ret.ok /\ Len(ret.val) = ROUNDS
    /\ ret.val[2] # ret.val[1]

\* the short and the long key are refused
C10_WitnessRefused ==
    /\ Called("_generate_round_keys")
    /\ Len(args.master) = 17 /\ ~ret.ok

\* ------------------------------------ SpecBlock: encrypt_block, decrypt_block

\* the 8-byte blocks tried, and two of the wrong length
Blocks ==
    {Bytes(seed, 8) : seed \in 0..MaxSeed}
        \cup {Repeat(0, 8), Repeat(255, 8), Bytes(1, 7), Bytes(2, 9)}

\* a schedule of R subkeys of 8 arbitrary bytes each
Schedule(seed, R) == Bytestring([r \in 1..R |-> Bytes(seed + 5 * r, 8)], R)

InitBlock ==
    /\ TablesReady /\ NoSession
    /\ fn = "encrypt_block"
    /\ \E B \in Blocks, seed \in 0..MaxSeed, R \in (0..MaxRounds) \cup {ROUNDS} :
           args = [block |-> B, round_keys |-> Schedule(seed, R)]
    /\ ret = NotReturned

EncryptBlock ==
    /\ fn = "encrypt_block" /\ ret = NotReturned
    /\ ret' = encrypt_block(args.block, args.round_keys)
    /\ UNCHANGED <<tableVars, fn, args, msgVars>>

\* the block just encrypted is decrypted under the same schedule
DecryptBlock ==
    /\ fn = "encrypt_block" /\ ret.ok
    /\ fn' = "decrypt_block"
    /\ args' = [block |-> ret.val, round_keys |-> args.round_keys,
                encrypted_from |-> args.block]
    /\ ret' = decrypt_block(ret.val, args.round_keys)
    /\ UNCHANGED <<tableVars, msgVars>>

NextBlock == EncryptBlock \/ DecryptBlock

SpecBlock == InitBlock /\ [][NextBlock]_vars

\* C2: decrypt_block(encrypt_block(B, keys), keys) = B for every 8-byte block
\* B and every schedule of 8-byte subkeys, of any length including none.
C2_BlockRoundTrip ==
    Called("decrypt_block") => ret = Ok(args.encrypted_from)

\* ten rounds changed the block and decryption restored it
C2_Witness ==
    /\ Called("decrypt_block")
    /\ Len(args.round_keys) = ROUNDS
    /\ args.block # args.encrypted_from
    /\ ret = Ok(args.encrypted_from)

\* with no subkey at all the block passes through both ways
C2_WitnessNoRounds ==
    /\ Called("decrypt_block")
    /\ Len(args.round_keys) = 0
    /\ args.block = args.encrypted_from
    /\ ret = Ok(args.encrypted_from)

\* --------------------------------------------------- SpecPad: _pkcs7_pad

MaxDataLen == 17

InitPad ==
    /\ TablesReady /\ NoSession
    /\ fn = "_pkcs7_pad"
    /\ \E n \in 0..MaxDataLen, seed \in 0..MaxSeed :
           args = [data |-> Bytes(seed, n), block_size |-> BLOCK_SIZE]
    /\ ret = NotReturned

Pad ==
    /\ fn = "_pkcs7_pad" /\ ret = NotReturned
    /\ ret' = Ok(_pkcs7_pad(args.data, args.block_size))
    /\ UNCHANGED <<tableVars, fn, args, msgVars>>

NextPad == Pad

SpecPad == InitPad /\ [][NextPad]_vars

\* C7: _pkcs7_pad(d, 8) is d followed by n bytes, 1 <= n <= 8, each equal to
\* n; its length is a positive multiple of 8 greater than len(d); aligned
\* input gets the full 8 bytes.
C7_PadShape ==
    Called("_pkcs7_pad") =>
        LET d == args.data
            out == ret.val
            n == Len(out) - Len(d)
        IN /\ ret.ok
           /\ Len(out) > 0 /\ Len(out) % 8 = 0
           /\ Len(out) > Len(d)
           /\ n >= 1 /\ n <= 8
           /\ SubSeq(out, 1, Len(d)) = d
           /\ \A i \in (Len(d) + 1)..Len(out) : out[i] = n
           /\ Len(d) % 8 = 0 => n = 8

\* aligned, non-empty input received a whole block of padding
C7_Witness ==
    /\ Called("_pkcs7_pad")
    /\ Len(args.data) = 16
    /\ Len(ret.val) = 24
    /\ SubSeq(ret.val, 17, 24) = Repeat(8, 8)

\* ----------------------------------------------- SpecUnpad: _pkcs7_unpad

MaxPadByte == 9
MaxCorrupt == 8

UnpadLengths == {0, 7, 8, 16, 17}

\* n bytes ending in min(p, n) bytes equal to p; when c >= 2 the c-th byte from
\* the end is a different one; the bytes before them are either distinct
\* values above 100 or p as well
UnpadData(n, p, c, same) ==
    Bytestring([i \in 1..n |->
                   IF i > n - p
                   THEN IF c >= 2 /\ i = n - c + 1 THEN (p + 1) % 256 ELSE p
                   ELSE IF same THEN p ELSE 100 + i], n)

InitUnpad ==
    /\ TablesReady /\ NoSession
    /\ fn = "_pkcs7_unpad"
    /\ \E n \in UnpadLengths, p \in (0..MaxPadByte) \cup {255},
          c \in 0..MaxCorrupt, same \in BOOLEAN :
           args = [data |-> UnpadData(n, p, c, same), block_size |-> BLOCK_SIZE]
    /\ ret = NotReturned

Unpad ==
    /\ fn = "_pkcs7_unpad" /\ ret = NotReturned
    /\ ret' = _pkcs7_unpad(args.data, args.block_size)
    /\ UNCHANGED <<tableVars, fn, args, msgVars>>

NextUnpad == Unpad

SpecUnpad == InitUnpad /\ [][NextUnpad]_vars

\* C9: _pkcs7_unpad(data, 8) fails exactly when data is empty, or its length
\* is no multiple of 8, or its final byte p is outside 1..8, or its last p
\* bytes are not all p; otherwise it returns data without its last p bytes;
\* a failure returns nothing.
C9_UnpadExact ==
    Called("_pkcs7_unpad") =>
        LET d == args.data
            n == Len(d)
            p == d[n]
            bad == \/ n = 0
                   \/ n % 8 # 0
                   \/ p < 1
                   \/ p > 8
                   \/ \E i \in (n - p + 1)..n : d[i] # p
        IN /\ ret.ok <=> ~bad
           /\ ret.ok => ret.val = SubSeq(d, 1, n - p)
           /\ ~ret.ok => ret.val = <<>>

\* a fill byte that differs from the final byte is refused
C9_Witness ==
    /\ Called("_pkcs7_unpad")
    /\ Len(args.data) = 16
    /\ args.data[16] = 4 /\ args.data[14] # 4
    /\ ~ret.ok

\* valid padding is stripped, here with the byte before it equal to the pad
C9_WitnessStripped ==
    /\ Called("_pkcs7_unpad")
    /\ Len(args.data) = 16
    /\ args.data[16] = 3 /\ args.data[13] = 3
    /\ ret = Ok(SubSeq(args.data, 1, 13))

\* ------------------------------------------ base64 as the channel reads it

\* The value of a character in the alphabet b64encode writes, 64 for any other
\* character: entry ch + 1 for the ASCII character ch.
AlphabetIndex ==
    Bytestring([c \in 1..128 |->
                   IF \E v \in 0..63 : b64_char(v) = c - 1
                   THEN CHOOSE v \in 0..63 : b64_char(v) = c - 1
                   ELSE 64], 128)

AlphabetValue(ch) == IF ch < 128 THEN AlphabetIndex[ch + 1] ELSE 64

\* a text of whole quads of alphabet characters, "=" in the last two places only
WellFormed(t) ==
    /\ Len(t) % 4 = 0
    /\ \A i \in 1..Len(t) :
           \/ AlphabetValue(t[i]) < 64
           \/ t[i] = 61 /\ i >= Len(t) - 1 /\ t[Len(t)] = 61

\* the bytes a well-formed text stands for, from quad q on
RECURSIVE BlobBytesFrom(_, _)
BlobBytesFrom(t, q) ==
    IF q > Len(t) THEN <<>>
    ELSE
        LET v1 == AlphabetValue(t[q])
            v2 == AlphabetValue(t[q + 1])
            v3 == AlphabetValue(t[q + 2])
            v4 == AlphabetValue(t[q + 3])
        IN IF t[q + 2] = 61 THEN <<v1 * 4 + (v2 \div 16)>>
           ELSE IF t[q + 3] = 61
           THEN <<v1 * 4 + (v2 \div 16), (v2 % 16) * 16 + (v3 \div 4)>>
           ELSE <<v1 * 4 + (v2 \div 16), (v2 % 16) * 16 + (v3 \div 4),
                  (v3 % 4) * 64 + v4>> \o BlobBytesFrom(t, q + 4)

BlobBytes(t) == BlobBytesFrom(t, 1)

\* ------------------------------------------ Spec: a message session

MaxPlainLen == 8

\* "HELLO, WORLD" and a text of 1- to 4-byte characters
TextAscii == <<72, 69, 76, 76, 79, 44, 32, 87, 79, 82, 76, 68>>
TextMixed == <<233, 8364, 128512, 1076, 65, 26085, 122, 255, 1234, 66, 8482, 97>>

Prefix(t, n) == SubSeq(t, 1, IF n < Len(t) THEN n ELSE Len(t))

Plaintexts == {Prefix(t, n) : t \in {TextAscii, TextMixed}, n \in 0..MaxPlainLen}

\* "test_key_128"; the same followed by NUL; "testXkey_128"; "Test_key_128";
\* "0123456789abcdef"; the same followed by "XYZ"; a Cyrillic passphrase
KeyTest == <<116, 101, 115, 116, 95, 107, 101, 121, 95, 49, 50, 56>>
KeyTestNul == KeyTest \o <<0>>
KeyTestX == <<116, 101, 115, 116, 88, 107, 101, 121, 95, 49, 50, 56>>
KeyTestCap == <<84, 101, 115, 116, 95, 107, 101, 121, 95, 49, 50, 56>>
Key16 == <<48, 49, 50, 51, 52, 53, 54, 55, 56, 57, 97, 98, 99, 100, 101, 102>>
Key19 == Key16 \o <<88, 89, 90>>
KeyCyrillic == <<1087, 1072, 1088, 1086, 1083, 1100>>

Keys == {KeyTest, KeyTestNul, KeyTestX, KeyTestCap, Key16, Key19, KeyCyrillic}

\* XOR masks applied to one byte of a blob in transit
TamperMasks == {1, 255}

\* "!", space, newline and e-acute, none of them in the base64 alphabet
BadChars == {33, 32, 10, 233}

\* where a character is inserted into a blob
InsertAt(b) == {0, 1, Len(b) \div 2, Len(b)}

\* what a user may paste instead of a blob: "!!!!", "A!", "QUJD", "===="
Pasted == {<<33, 33, 33, 33>>, <<65, 33>>, <<81, 85, 74, 68>>, <<61, 61, 61, 61>>}

Init == TablesReady /\ NoCall /\ NoSession

\* result = encrypt_message(data, key)
Encrypt(S, K) ==
    /\ pc = "start"
    /\ LET result == encrypt_message(S, K, ROUNDS)
       IN /\ result.ok
          /\ sent' = result.val
          /\ blob' = result.val
    /\ plaintext' = S
    /\ key_str' = K
    /\ pc' = "sent"
    /\ UNCHANGED <<tableVars, callVars, key2, outcome>>

\* one byte of the ciphertext portion is changed in transit
Tamper(i, mask) ==
    /\ pc = "sent"
    /\ LET raw == BlobBytes(blob)
       IN /\ i > BLOCK_SIZE /\ i <= Len(raw)
          /\ blob' = b64encode([raw EXCEPT ![i] = Xor(raw[i], mask)])
    /\ pc' = "tampered"
    /\ UNCHANGED <<tableVars, callVars, plaintext, key_str, sent, key2, outcome>>

\* a character outside the alphabet is inserted into the blob
Corrupt(at, ch) ==
    /\ pc = "sent"
    /\ blob' = SubSeq(blob, 1, at) \o <<ch>> \o SubSeq(blob, at + 1, Len(blob))
    /\ pc' = "corrupted"
    /\ UNCHANGED <<tableVars, callVars, plaintext, key_str, sent, key2, outcome>>

\* the receiver is handed a text that encrypt_message never produced
Paste(text, K) ==
    /\ pc = "start"
    /\ blob' = text
    /\ key_str' = K
    /\ pc' = "pasted"
    /\ UNCHANGED <<tableVars, callVars, plaintext, sent, key2, outcome>>

\* result = decrypt_message(data, key); another passphrase than the sender's
\* is tried on the blob as sent
Decrypt(K2) ==
    /\ pc \in {"sent", "tampered", "corrupted", "pasted"}
    /\ K2 = key_str \/ pc = "sent"
    /\ key2' = K2
    /\ outcome' = decrypt_message(blob, K2, ROUNDS)
    /\ pc' = "decrypted"
    /\ UNCHANGED <<tableVars, callVars, plaintext, key_str, sent, blob>>

Next ==
    \/ \E S \in Plaintexts, K \in Keys : Encrypt(S, K)
    \/ \E i \in 1..(BLOCK_SIZE * (MaxPlainLen + 2)), mask \in TamperMasks :
           Tamper(i, mask)
    \/ \E at \in InsertAt(blob), ch \in BadChars : Corrupt(at, ch)
    \/ \E text \in Pasted, K \in Keys : Paste(text, K)
    \/ \E K2 \in Keys : Decrypt(K2)

Spec == Init /\ [][Next]_vars

\* the session went through encrypt_message
Encrypted == sent # <<>>

\* the blob reached decrypt_message as encrypt_message returned it
Intact == Encrypted /\ blob = sent

\* C1: decrypt_message(encrypt_message(S, K), K) returns exactly S, for every
\* string S and non-empty passphrase K, with the default round count.
C1_MessageRoundTrip ==
    (pc = "decrypted" /\ Intact /\ key2 = key_str /\ key_str # <<>>)
        => outcome = Ok(plaintext)

\* a three-block message of multi-byte characters came back under a Cyrillic
\* passphrase
C1_Witness ==
    /\ pc = "decrypted" /\ Intact /\ key2 = key_str
    /\ key_str = KeyCyrillic
    /\ plaintext = Prefix(TextMixed, 8)
    /\ Len(BlobBytes(sent)) = 32
    /\ outcome = Ok(plaintext)

\* bytes 0..3 of the key derived from a passphrase
KeyHead(K) == SubSeq(_derive_key(K).val, 1, 4)

\* C3 as stated: decrypting under any other passphrase never returns S.
C3_KeySensitivity ==
    (pc = "decrypted" /\ Intact /\ key2 # key_str)
        => outcome # Ok(plaintext)

\* C3 as amended: a different passphrase whose derived key has the same bytes
\* 0..3 as the sender's decrypts the blob to exactly S.
C3_SameKeyHeadDecrypts ==
    (pc = "decrypted" /\ Intact /\ key2 # key_str
        /\ KeyHead(key2) = KeyHead(key_str))
        => outcome = Ok(plaintext)

\* "testXkey_128" opened what "test_key_128" encrypted: the derived keys differ
\* in byte 4 only
C3_Witness ==
    /\ pc = "decrypted" /\ Intact
    /\ key_str = KeyTest /\ key2 = KeyTestX
    /\ _derive_key(key2) # _derive_key(key_str)
    /\ plaintext = Prefix(TextAscii, 5)
    /\ outcome = Ok(plaintext)

\* the bytes of the blob differ from those sent in exactly one position, and
\* that position lies after the 8-byte IV
OneCipherByteChanged ==
    /\ Encrypted
    /\ WellFormed(sent) /\ WellFormed(blob)
    /\ LET a == BlobBytes(sent)
           b == BlobBytes(blob)
       IN /\ blob = b64encode(b)
          /\ Len(a) = Len(b)
          /\ Cardinality({i \in 1..Len(a) : a[i] # b[i]}) = 1
          /\ \A i \in 1..BLOCK_SIZE : a[i] = b[i]

\* C4: after a change of one byte of the ciphertext portion, decrypt_message
\* under the sender's passphrase fails or returns another string, never S.
C4_TamperDetected ==
    (pc = "decrypted" /\ key2 = key_str /\ OneCipherByteChanged)
        => outcome # Ok(plaintext)

\* a changed byte in the last block was caught by the padding check
C4_Witness ==
    /\ pc = "decrypted" /\ key2 = key_str /\ OneCipherByteChanged
    /\ ~outcome.ok
    /\ outcome.err \in {"Invalid padding length", "Invalid padding bytes"}

\* a changed byte went unnoticed by every check and another string came back
C4_WitnessOtherString ==
    /\ pc = "decrypted" /\ key2 = key_str /\ OneCipherByteChanged
    /\ outcome.ok /\ outcome.val # plaintext

\* bit k of a byte
Bit(b, k) == (b \div (2 ^ k)) % 2

\* b ^ 0xA5: the bits 0, 2, 5 and 7 of b inverted
XorA5(b) ==
    LET flip(k) == IF k \in {0, 2, 5, 7} THEN 1 - Bit(b, k) ELSE Bit(b, k)
    IN flip(0) + 2 * flip(1) + 4 * flip(2) + 8 * flip(3) + 16 * flip(4)
       + 32 * flip(5) + 64 * flip(6) + 128 * flip(7)

\* C5: the bytes encrypt_message base64-encodes are 8 + 8k long with
\* k = floor(n / 8) + 1, n the UTF-8 length of the plaintext, and begin with
\* the IV: bytes 0..7 of the derived key, each XORed with 0xA5.
C5_EnvelopeLayout ==
    Encrypted =>
        LET raw == BlobBytes(sent)
            n == Len(str_encode_utf8(plaintext).val)
            key == _derive_key(key_str).val
        IN /\ WellFormed(sent)
           /\ Len(key) = 16
           /\ Len(raw) = 8 + 8 * ((n \div 8) + 1)
           /\ \A i \in 1..8 : raw[i] = XorA5(key[i])

\* "HELLO" under "test_key_128": 16 bytes, the IV first
C5_Witness ==
    /\ Encrypted
    /\ plaintext = Prefix(TextAscii, 5) /\ key_str = KeyTest
    /\ Len(BlobBytes(sent)) = 16
    /\ SubSeq(BlobBytes(sent), 1, 4) = <<209, 192, 214, 209>>

\* the characters of the base64 alphabet, and the pad character "="
IsBase64Char(ch) == AlphabetValue(ch) < 64 \/ ch = 61

DecodingErrors ==
    {"binascii.Error: Incorrect padding",
     "binascii.Error: Invalid base64-encoded string",
     "UnicodeEncodeError"}

\* C6: decrypt_message of an input holding a character outside the base64
\* alphabet and padding ends in a decoding error.
C6_BadCharIsDecodingError ==
    (pc = "decrypted" /\ \E i \in 1..Len(blob) : ~IsBase64Char(blob[i]))
        => (~outcome.ok /\ outcome.err \in DecodingErrors)

\* ------------------------- SpecKeyPair: one input under two keys in turn

\* encrypt_block(block, _generate_round_keys(master, rounds))
encrypt_block_under(block, master, rounds) ==
    LET round_keys == _generate_round_keys(master, rounds)
    IN IF ~round_keys.ok THEN round_keys
       ELSE encrypt_block(block, round_keys.val)

\* decrypt_block(block, _generate_round_keys(master, rounds))
decrypt_block_under(block, master, rounds) ==
    LET round_keys == _generate_round_keys(master, rounds)
    IN IF ~round_keys.ok THEN round_keys
       ELSE decrypt_block(block, round_keys.val)

\* the call f(data, key, rounds) of one of the three keyed operations
CallKeyed(f, data, key, rounds) ==
    IF f = "encrypt_block" THEN encrypt_block_under(data, key, rounds)
    ELSE IF f = "decrypt_block" THEN decrypt_block_under(data, key, rounds)
    ELSE decrypt_message(data, key, rounds)

BlockOps == {"encrypt_block", "decrypt_block"}

\* the 16-byte key a call works from: the master key of a block operation,
\* the key derived from the passphrase of decrypt_message
KeyUsed(f, key) == IF f \in BlockOps THEN key ELSE _derive_key(key).val

\* 16-byte keys paired with a master key: itself, one with other bytes 4..15,
\* one with another byte 9 only, one with another byte 0
OtherKeys(master) ==
    {master,
     Take(master, 4) \o Bytes(master[1] + 7, 12),
     [master EXCEPT ![10] = (master[10] + 1) % 256],
     [master EXCEPT ![1] = (master[1] + 1) % 256]}

\* texts handed to decrypt_message that encrypt_message never returned:
\* 12 and 8 arbitrary bytes encoded; "!!!!", "QUJD" and e-acute
PairBlobs ==
    {b64encode(Bytes(1, 12)), b64encode(Bytes(2, 8)),
     <<33, 33, 33, 33>>, <<81, 85, 74, 68>>, <<233>>}

\* the messages sent, each with its sender's passphrase
PairMessages ==
    {[plaintext |-> Prefix(TextAscii, 5), key |-> KeyTest],
     [plaintext |-> Prefix(TextMixed, 8), key |-> KeyCyrillic]}

\* what happens to a blob on its way: nothing, one ciphertext byte changed,
\* the last character lost
Transit == {"intact", "changed", "cut"}

InTransit(how, t) ==
    IF how = "changed"
    THEN b64encode([BlobBytes(t) EXCEPT ![12] = Xor(BlobBytes(t)[12], 1)])
    ELSE IF how = "cut" THEN SubSeq(t, 1, Len(t) - 1)
    ELSE t

PairRounds == {0, MaxRounds, ROUNDS}

InitKeyPair ==
    /\ TablesReady /\ NoSession
    /\ ret = NotReturned
    /\ \/ /\ fn \in BlockOps
          /\ \E B \in Blocks, seed \in 0..MaxSeed,
                R \in (0..MaxRounds) \cup {ROUNDS} :
                 \E other \in OtherKeys(Bytes(seed, 16)) :
                     args = [data |-> B, key |-> Bytes(seed, 16),
                             other_key |-> other, rounds |-> R]
       \/ /\ fn = "decrypt_message"
          /\ \E text \in PairBlobs, K1 \in Keys, K2 \in Keys, R \in PairRounds :
                 args = [data |-> text, key |-> K1, other_key |-> K2,
                         rounds |-> R]
       \/ /\ fn = "encrypt_message"
          /\ \E m \in PairMessages, how \in Transit,
                K1 \in Keys, K2 \in Keys, R \in PairRounds :
                 args = [data |-> m.plaintext, sender_key |-> m.key,
                         how |-> how, key |-> K1, other_key |-> K2,
                         rounds |-> R]

\* encrypt_message produces the blob the two receivers will be handed
SendBlob ==
    /\ fn = "encrypt_message"
    /\ LET result == encrypt_message(args.data, args.sender_key, ROUNDS)
       IN /\ result.ok
          /\ args' = [data |-> InTransit(args.how, result.val),
                      key |-> args.key, other_key |-> args.other_key,
                      rounds |-> args.rounds]
    /\ fn' = "decrypt_message"
    /\ UNCHANGED <<tableVars, ret, msgVars>>

\* the operation is called under the first key
CallUnderKey ==
    /\ fn \in BlockOps \cup {"decrypt_message"}
    /\ ret = NotReturned
    /\ ret' = CallKeyed(fn, args.data, args.key, args.rounds)
    /\ UNCHANGED <<tableVars, fn, args, msgVars>>

\* the same operation is called on the same input under the other key; the
\* first outcome is kept for comparison
CallUnderOtherKey ==
    /\ ret # NotReturned /\ "first" \notin DOMAIN args
    /\ args' = [data |-> args.data, key |-> args.key,
                other_key |-> args.other_key, rounds |-> args.rounds,
                first |-> ret]
    /\ ret' = CallKeyed(fn, args.data, args.other_key, args.rounds)
    /\ UNCHANGED <<tableVars, fn, msgVars>>

NextKeyPair == SendBlob \/ CallUnderKey \/ CallUnderOtherKey

SpecKeyPair == InitKeyPair /\ [][NextKeyPair]_vars

\* both calls of a pair have been made
BothCalled ==
    /\ fn \in BlockOps \cup {"decrypt_message"}
    /\ "first" \in DOMAIN args

\* the two 16-byte keys of the pair agree on bytes 0..3
SameHead ==
    Take(KeyUsed(fn, args.key), 4) = Take(KeyUsed(fn, args.other_key), 4)

\* C11: for any round count, two 16-byte keys that agree on bytes 0..3 give
\* the same encrypt_block and decrypt_block output on every block, and two
\* passphrases whose derived keys agree on bytes 0..3 give the same
\* decrypt_message outcome (value or error) on every blob.
C11_KeyHeadOnly ==
    (BothCalled /\ SameHead) => ret = args.first

\* ten rounds under two keys that differ in bytes 4..15 changed the block, and
\* changed it alike
C11_Witness ==
    /\ BothCalled /\ SameHead
    /\ fn = "encrypt_block" /\ args.rounds = ROUNDS
    /\ \A i \in 5..16 : args.key[i] # args.other_key[i]
    /\ ret.ok /\ ret.val # args.data
    /\ ret = args.first

\* "test_key_128" and "testXkey_128" read the same message out of a blob
C11_WitnessMessage ==
    /\ BothCalled /\ SameHead
    /\ fn = "decrypt_message" /\ args.rounds = ROUNDS
    /\ args.key = KeyTest /\ args.other_key = KeyTestX
    /\ ret = Ok(Prefix(TextAscii, 5))
    /\ ret = args.first

\* both passphrases met the same failure on a blob changed in transit
C11_WitnessSameError ==
    /\ BothCalled /\ SameHead
    /\ fn = "decrypt_message"
    /\ _derive_key(args.key) # _derive_key(args.other_key)
    /\ ~ret.ok /\ ret.err \in {"Invalid padding length", "Invalid padding bytes"}
    /\ ret = args.first

\* a key with another byte 0 decrypted the block to something else
C11_WitnessHeadMatters ==
    /\ BothCalled /\ ~SameHead
    /\ fn = "decrypt_block" /\ args.rounds = ROUNDS
    /\ ret.ok /\ args.first.ok
    /\ ret # args.first

====
